---- MODULE Spec2Model ----
(***************************************************************************)
(* Model of the uncomplicated-player playback queue                        *)
(* (src/src/uncomplicated-player-queue.ts, class UncomplicatedPlayerQueue, *)
(* lines 374-805) and of the player ring that follows it                   *)
(* (src/src/uncomplicated-player.ts, lines 70-787).                        *)
(*                                                                         *)
(* Every public method is one action.  A method's body is an operator on   *)
(* a queue record q; it yields the SET of outcomes the call can have, one  *)
(* per outcome of the Math.random() draws it makes.  The mutation callback *)
(* runs synchronously inside the method, so its effect on the player (and, *)
(* through the `current` getter, on the queue) is part of the same action. *)
(***************************************************************************)
EXTENDS Integers, Sequences, FiniteSets, TLC

(***************************************************************************)
(* Bounds of the model.                                                    *)
(***************************************************************************)
MaxKey == 3          \* the queue on its own: no key is assigned beyond MaxKey
MaxPlayerKey == 2    \* the queue of a player: no key is assigned beyond MaxPlayerKey
MaxSeek == 3         \* seekLength is set to values 0..MaxSeek
MaxPushMany == 2     \* pushMany takes lists of 0..MaxPushMany tracks
MaxCommands == 4     \* play/pause commands issued to one slot

(***************************************************************************)
(* Program constants.                                                      *)
(***************************************************************************)
DefaultSeekLength == 3      \* constructor and setDefaultSeekLength
DefaultPrefetchSize == 3    \* defaultConfig.prefetchSize

Min(a, b) == IF a < b THEN a ELSE b
Abs(a) == IF a < 0 THEN 0 - a ELSE a

(***************************************************************************)
(* JavaScript values.  A value carries its typeof tag; an object is the    *)
(* sequence of its own enumerable properties in insertion order.           *)
(***************************************************************************)
Null == [t |-> "null"]
Undefined == [t |-> "undefined"]
Str(s) == [t |-> "string", s |-> s]
Num(n) == [t |-> "number", n |-> n]
Obj(props) == [t |-> "object", o |-> props]
Prop(name, value) == [k |-> name, v |-> value]

\* `if (x)` for a value that is a track, null or undefined
Truthy(v) == v # Null /\ v # Undefined

\* typeof v === 'object' (true of null as well)
TypeofObject(v) == v.t \in {"object", "null"}

\* v[name] for a value that is not null/undefined
GetProp(v, name) ==
    IF v.t = "object" /\ \E i \in 1..Len(v.o) : v.o[i].k = name
    THEN v.o[CHOOSE i \in 1..Len(v.o) : v.o[i].k = name].v
    ELSE Undefined

\* the names `for (const key in v)` visits, in order
ForInKeys(v) == IF v.t = "object" THEN [i \in 1..Len(v.o) |-> v.o[i].k] ELSE <<>>

(***************************************************************************)
(* URL and tracks.  A URL is held by its href; toString() yields the href. *)
(***************************************************************************)
Url(h) == [href |-> h]
URLtoString(u) == u.href

EmptyData == Obj(<<>>)
FilterData == Obj(<<Prop("filteringData", Str("filter"))>>)

\* the track inputs the calls are made with
PrimitiveTracks ==
    { [src |-> Url("http://a/"), data |-> EmptyData],
      [src |-> Url("http://b/"), data |-> FilterData] }

\* { ...track, key: key }
MakeTrack(track, key) == [src |-> track.src, data |-> track.data, key |-> key]

\* a track seen as a JavaScript object by recursiveCompare
TrackObj(tr) ==
    Obj(<<Prop("src", Obj(<<Prop("href", Str(tr.src.href))>>)),
          Prop("data", tr.data),
          Prop("key", Num(tr.key))>>)

(***************************************************************************)
(* key.toString() and parseInt(key): decimal digits, most significant      *)
(* first.                                                                  *)
(***************************************************************************)
RECURSIVE NumToString(_)
NumToString(n) == IF n < 10 THEN <<n>> ELSE NumToString(n \div 10) \o <<n % 10>>

RECURSIVE parseInt(_)
parseInt(s) ==
    IF Len(s) = 1 THEN s[1]
    ELSE 10 * parseInt(SubSeq(s, 1, Len(s) - 1)) + s[Len(s)]

(***************************************************************************)
(* queue.next is a JavaScript object whose property names are canonical    *)
(* array indices ("1", "2", ...): Object.keys lists such names in          *)
(* ascending numeric order, whatever the order of insertion.               *)
(***************************************************************************)
RECURSIVE KeysAscending(_)
KeysAscending(S) ==
    IF S = {} THEN <<>>
    ELSE LET m == CHOOSE k \in S : \A j \in S : parseInt(k) <= parseInt(j)
         IN <<m>> \o KeysAscending(S \ {m})

ObjectKeys(o) == KeysAscending(DOMAIN o)

ObjSet(o, k, v) == [j \in (DOMAIN o) \cup {k} |-> IF j = k THEN v ELSE o[j]]
ObjDelete(o, k) == [j \in (DOMAIN o) \ {k} |-> o[j]]

\* tracks.forEach(track => next[track.key.toString()] = track)
RECURSIVE AddToNext(_, _)
AddToNext(nx, tracks) ==
    IF tracks = <<>> THEN nx
    ELSE AddToNext(ObjSet(nx, NumToString(Head(tracks).key), Head(tracks)), Tail(tracks))

(***************************************************************************)
(* Array.prototype.splice(start, deleteCount): the array that remains.     *)
(***************************************************************************)
SpliceStart(len, start) ==
    IF start < 0 THEN (IF len + start < 0 THEN 0 ELSE len + start)
    ELSE Min(start, len)

SpliceCount(len, start, deleteCount) ==
    LET s == SpliceStart(len, start)
    IN IF deleteCount < 0 THEN 0 ELSE Min(deleteCount, len - s)

Splice(arr, start, deleteCount) ==
    LET s == SpliceStart(Len(arr), start)
        c == SpliceCount(Len(arr), start, deleteCount)
    IN SubSeq(arr, 1, s) \o SubSeq(arr, s + c + 1, Len(arr))

\* floor(m * Math.random()): Math.random() is in [0, 1)
RandomIndex(m) == 0..(m - 1)

(***************************************************************************)
(* recursiveCompare(original, comp): "true", "false", or "throw" when it   *)
(* reads a property of undefined/null (a TypeError).  `comp === original`  *)
(* compares references: a filter is never the object held by the queue, so *)
(* it holds only of null against null.                                     *)
(***************************************************************************)
RECURSIVE recursiveCompare(_, _)
RECURSIVE CompareProps(_, _, _)
CompareProps(original, comp, keys) ==
    IF keys = <<>> THEN "true"
    ELSE IF original.t \in {"undefined", "null"} THEN "throw"
    ELSE LET key == Head(keys)
             c == GetProp(comp, key)
             o == GetProp(original, key)
         IN IF TypeofObject(c)
            THEN LET r == recursiveCompare(o, c)
                 IN IF r = "true" THEN CompareProps(original, comp, Tail(keys)) ELSE r
            ELSE IF c # o THEN "false"
            ELSE CompareProps(original, comp, Tail(keys))

recursiveCompare(original, comp) ==
    IF comp = Null /\ original = Null THEN "true"
    ELSE CompareProps(original, comp, ForInKeys(comp))

(***************************************************************************)
(* The queue.  q is the record of the object's fields.                     *)
(***************************************************************************)
NewQueue ==
    [history |-> <<>>, curr |-> Null, nextSeek |-> <<>>, next |-> <<>>,
     shuffleQueue |-> FALSE, tracksKeyCounter |-> 0, seekSize |-> DefaultSeekLength]

Swap(arr, i, j) == [arr EXCEPT ![i] = arr[j], ![j] = arr[i]]

\* the loop of adjustNextSeek with every draw landing on i itself
RECURSIVE ShuffleKeys_InPlace(_, _, _)
ShuffleKeys_InPlace(keys, i, needed) ==
    IF i >= needed THEN {keys}
    ELSE ShuffleKeys_InPlace(Swap(keys, i + 1, i + 1), i + 1, needed)

\* the partial Fisher-Yates loop of adjustNextSeek from step i (0-based) on:
\* every array the loop can leave, one per outcome of the random draws
RECURSIVE ShuffleKeys(_, _, _)
ShuffleKeys(keys, i, needed) ==
    IF i >= needed THEN {keys}
    ELSE UNION { ShuffleKeys(Swap(keys, i + 1, (r + i) + 1), i + 1, needed)
                 : r \in RandomIndex(Len(keys) - i) }

\* keys.forEach(key => { nextSeek.push(next[key]); delete next[key]; })
RECURSIVE TakeFromNext(_, _)
TakeFromNext(q, keys) ==
    IF keys = <<>> THEN q
    ELSE TakeFromNext([q EXCEPT !.nextSeek = Append(q.nextSeek, q.next[Head(keys)]),
                                !.next = ObjDelete(q.next, Head(keys))],
                      Tail(keys))

\* adjustNextSeek without its first branch: a lookahead longer than seekSize is
\* left as it is
adjustNextSeek_NoShrink(q) ==
    LET nextSeekLen == Len(q.nextSeek)
    IN IF nextSeekLen < q.seekSize
       THEN LET keys == ObjectKeys(q.next)
                needed == Min(q.seekSize - nextSeekLen, Len(keys))
                arrays == IF q.shuffleQueue THEN ShuffleKeys(keys, 0, needed) ELSE {keys}
            IN { TakeFromNext(q, SubSeq(ks, 1, needed)) : ks \in arrays }
       ELSE {q}

adjustNextSeek(q) ==
    LET nextSeekLen == Len(q.nextSeek)
    IN IF nextSeekLen > q.seekSize
       THEN {[q EXCEPT !.nextSeek = SubSeq(q.nextSeek, 1, q.seekSize),
                       !.next = AddToNext(q.next,
                                    SubSeq(q.nextSeek, q.seekSize + 1, nextSeekLen))]}
       ELSE IF nextSeekLen < q.seekSize
       THEN LET keys == ObjectKeys(q.next)
                needed == Min(q.seekSize - nextSeekLen, Len(keys))
                arrays == IF q.shuffleQueue THEN ShuffleKeys(keys, 0, needed) ELSE {keys}
            IN { TakeFromNext(q, SubSeq(ks, 1, needed)) : ks \in arrays }
       ELSE {q}

\* refreshQueue after its first adjustNextSeek()
RefreshCurrent(q) ==
    IF q.seekSize > 0 /\ Len(q.nextSeek) = 0 THEN {q}
    ELSE IF Truthy(q.curr) THEN {q}
    ELSE LET keys == ObjectKeys(q.next)
         IN IF q.seekSize = 0 /\ Len(keys) > 0
            THEN { [q EXCEPT !.curr = q.next[keys[index + 1]],
                             !.next = ObjDelete(q.next, keys[index + 1])]
                   : index \in (IF q.shuffleQueue THEN RandomIndex(Len(keys)) ELSE {0}) }
            ELSE adjustNextSeek(
                   [q EXCEPT !.curr = IF Len(q.nextSeek) > 0 THEN q.nextSeek[1] ELSE Undefined,
                             !.nextSeek = Splice(q.nextSeek, 0, 1)])

refreshQueue(q) == UNION { RefreshCurrent(q1) : q1 \in adjustNextSeek(q) }

(***************************************************************************)
(* The public methods.  Each yields the set of outcomes                    *)
(*   [q |-> queue after the body, cb |-> the tags the method passed to     *)
(*    the mutation callback, in order, ret |-> the value it returns].      *)
(***************************************************************************)
\* the callback is handed the tag only; `seen` is the queue as it stands when
\* the call is made (every method makes it after its last write)
Outcome(q, tags, ret) ==
    [q |-> q, cb |-> [i \in 1..Len(tags) |-> [tag |-> tags[i], seen |-> q]],
     ret |-> ret, threw |-> FALSE]

\* the method left by a TypeError: nothing is returned, no callback is made
Thrown(q) == [q |-> q, cb |-> <<>>, ret |-> Undefined, threw |-> TRUE]

\* push() taking the key from the number of tracks in the pool
push_KeyFromPoolSize(q, track) ==
    LET key == Len(ObjectKeys(q.next)) + 1
        q1 == [q EXCEPT !.tracksKeyCounter = key,
                        !.next = ObjSet(q.next, NumToString(key), MakeTrack(track, key))]
    IN { Outcome(q2, <<"push">>, q2.tracksKeyCounter) : q2 \in refreshQueue(q1) }

push(q, track) ==
    LET key == q.tracksKeyCounter + 1
        q1 == [q EXCEPT !.tracksKeyCounter = key,
                        !.next = ObjSet(q.next, NumToString(key), MakeTrack(track, key))]
    IN { Outcome(q2, <<"push">>, q2.tracksKeyCounter) : q2 \in refreshQueue(q1) }

\* the forEach of pushMany with tracksAdded.unshift in place of push
RECURSIVE PushEach_Unshift(_, _, _)
PushEach_Unshift(q, tracks, tracksAdded) ==
    IF tracks = <<>> THEN [q |-> q, tracksAdded |-> tracksAdded]
    ELSE LET key == q.tracksKeyCounter + 1
             tr == MakeTrack(Head(tracks), key)
         IN PushEach_Unshift([q EXCEPT !.tracksKeyCounter = key,
                                       !.next = ObjSet(q.next, NumToString(key), tr)],
                             Tail(tracks), <<tr>> \o tracksAdded)

\* the forEach of pushMany: the queue and the tracksAdded list after it
RECURSIVE PushEach(_, _, _)
PushEach(q, tracks, tracksAdded) ==
    IF tracks = <<>> THEN [q |-> q, tracksAdded |-> tracksAdded]
    ELSE LET key == q.tracksKeyCounter + 1
             tr == MakeTrack(Head(tracks), key)
         IN PushEach([q EXCEPT !.tracksKeyCounter = key,
                               !.next = ObjSet(q.next, NumToString(key), tr)],
                     Tail(tracks), Append(tracksAdded, tr))

\* pushMany leaving the new tracks in the pool, without refreshQueue()
pushMany_NoRefresh(q, tracks) ==
    LET r == PushEach(q, tracks, <<>>)
    IN { Outcome(r.q, <<"pushMany">>, r.tracksAdded) }

pushMany(q, tracks) ==
    LET r == PushEach(q, tracks, <<>>)
    IN { Outcome(q2, <<"pushMany">>, r.tracksAdded) : q2 \in refreshQueue(r.q) }

addNext(q, track) ==
    LET key == q.tracksKeyCounter + 1
        q1 == [q EXCEPT !.tracksKeyCounter = key,
                        !.nextSeek = <<MakeTrack(track, key)>> \o q.nextSeek]
    IN { Outcome(q2, <<"addNext">>, key) : q2 \in refreshQueue(q1) }

\* pop() taking the lookahead tail before the pool
pop_LookaheadFirst(q) ==
    LET keys == ObjectKeys(q.next)
    IN IF Len(q.nextSeek) > 0
       THEN {Outcome([q EXCEPT !.nextSeek = SubSeq(q.nextSeek, 1, Len(q.nextSeek) - 1)],
                     <<"pop">>, q.nextSeek[Len(q.nextSeek)].key)}
       ELSE IF Len(keys) > 0
       THEN LET key == keys[Len(keys)]
            IN {Outcome([q EXCEPT !.next = ObjDelete(q.next, key)], <<>>, parseInt(key))}
       ELSE IF Truthy(q.curr)
       THEN {Outcome([q EXCEPT !.curr = Null], <<"pop">>, q.curr.key)}
       ELSE {Outcome(q, <<>>, -1)}

\* pop() with the callback of the lookahead branch left out
pop_SilentSeek(q) ==
    LET keys == ObjectKeys(q.next)
    IN IF Len(keys) > 0
       THEN LET key == keys[Len(keys)]
            IN {Outcome([q EXCEPT !.next = ObjDelete(q.next, key)], <<>>, parseInt(key))}
       ELSE IF Len(q.nextSeek) > 0
       THEN {Outcome([q EXCEPT !.nextSeek = SubSeq(q.nextSeek, 1, Len(q.nextSeek) - 1)],
                     <<>>, q.nextSeek[Len(q.nextSeek)].key)}
       ELSE IF Truthy(q.curr)
       THEN {Outcome([q EXCEPT !.curr = Null], <<"pop">>, q.curr.key)}
       ELSE {Outcome(q, <<>>, -1)}

pop(q) ==
    LET keys == ObjectKeys(q.next)
    IN IF Len(keys) > 0
       THEN LET key == keys[Len(keys)]
            IN {Outcome([q EXCEPT !.next = ObjDelete(q.next, key)], <<>>, parseInt(key))}
       ELSE IF Len(q.nextSeek) > 0
       THEN {Outcome([q EXCEPT !.nextSeek = SubSeq(q.nextSeek, 1, Len(q.nextSeek) - 1)],
                     <<"pop">>, q.nextSeek[Len(q.nextSeek)].key)}
       ELSE IF Truthy(q.curr)
       THEN {Outcome([q EXCEPT !.curr = Null], <<"pop">>, q.curr.key)}
       ELSE {Outcome(q, <<>>, -1)}

\* the filter callbacks of remove over the tracks of one container, in order:
\* the tracks kept, the keys removed so far, and whether the compare threw
RECURSIVE FilterTracks(_, _, _, _)
FilterTracks(tracks, search, kept, removedKeys) ==
    IF tracks = <<>> THEN [kept |-> kept, removedKeys |-> removedKeys, threw |-> FALSE]
    ELSE LET r == recursiveCompare(TrackObj(Head(tracks)), search)
         IN IF r = "throw"
            THEN [kept |-> kept, removedKeys |-> removedKeys, threw |-> TRUE]
            ELSE IF r = "true"
            THEN FilterTracks(Tail(tracks), search, kept,
                              Append(removedKeys, Head(tracks).key))
            ELSE FilterTracks(Tail(tracks), search, Append(kept, Head(tracks)),
                              removedKeys)

\* the same over Object.keys(queue.next); the removed key is parseInt(key)
RECURSIVE FilterNext(_, _, _, _, _)
FilterNext(nx, keys, search, kept, removedKeys) ==
    IF keys = <<>> THEN [kept |-> kept, removedKeys |-> removedKeys, threw |-> FALSE]
    ELSE LET r == recursiveCompare(TrackObj(nx[Head(keys)]), search)
         IN IF r = "throw"
            THEN [kept |-> kept, removedKeys |-> removedKeys, threw |-> TRUE]
            ELSE IF r = "true"
            THEN FilterNext(nx, Tail(keys), search, kept,
                            Append(removedKeys, parseInt(Head(keys))))
            ELSE FilterNext(nx, Tail(keys), search, Append(kept, Head(keys)),
                            removedKeys)

\* .reduce((newNext, key) => { newNext[key] = next[key]; ... }, {})
RECURSIVE ReduceNext(_, _, _)
ReduceNext(nx, keys, newNext) ==
    IF keys = <<>> THEN newNext
    ELSE ReduceNext(nx, Tail(keys), ObjSet(newNext, Head(keys), nx[Head(keys)]))

\* remove() returning without the refresh
remove_NoRefresh(q, search) ==
    LET fNext == FilterNext(q.next, ObjectKeys(q.next), search, <<>>, <<>>)
        q1 == [q EXCEPT !.next = ReduceNext(q.next, fNext.kept, <<>>)]
        fSeek == FilterTracks(q.nextSeek, search, <<>>, fNext.removedKeys)
        fHist == FilterTracks(q.history, search, <<>>, fSeek.removedKeys)
        q2 == [q1 EXCEPT !.nextSeek = fSeek.kept, !.history = fHist.kept]
        rCurr == IF Truthy(q.curr) THEN recursiveCompare(TrackObj(q.curr), search)
                 ELSE "false"
        q3 == IF rCurr = "true" THEN [q2 EXCEPT !.curr = Null] ELSE q2
        removedKeys == IF rCurr = "true" THEN Append(fHist.removedKeys, q.curr.key)
                       ELSE fHist.removedKeys
    IN IF fNext.threw THEN {Thrown(q)}
       ELSE IF fSeek.threw \/ fHist.threw THEN {Thrown(q1)}
       ELSE IF rCurr = "throw" THEN {Thrown(q2)}
       ELSE {Outcome(q3, <<"remove">>, removedKeys)}

\* remove() filtering the pool, the lookahead and current but not history
remove_SkipHistory(q, search) ==
    LET fNext == FilterNext(q.next, ObjectKeys(q.next), search, <<>>, <<>>)
        q1 == [q EXCEPT !.next = ReduceNext(q.next, fNext.kept, <<>>)]
        fSeek == FilterTracks(q.nextSeek, search, <<>>, fNext.removedKeys)
        q2 == [q1 EXCEPT !.nextSeek = fSeek.kept]
        rCurr == IF Truthy(q.curr) THEN recursiveCompare(TrackObj(q.curr), search)
                 ELSE "false"
        q3 == IF rCurr = "true" THEN [q2 EXCEPT !.curr = Null] ELSE q2
        removedKeys == IF rCurr = "true" THEN Append(fSeek.removedKeys, q.curr.key)
                       ELSE fSeek.removedKeys
    IN IF fNext.threw THEN {Thrown(q)}
       ELSE IF fSeek.threw THEN {Thrown(q1)}
       ELSE IF rCurr = "throw" THEN {Thrown(q2)}
       ELSE { Outcome(q4, <<"remove">>, removedKeys) : q4 \in refreshQueue(q3) }

remove(q, search) ==
    LET fNext == FilterNext(q.next, ObjectKeys(q.next), search, <<>>, <<>>)
        q1 == [q EXCEPT !.next = ReduceNext(q.next, fNext.kept, <<>>)]
        fSeek == FilterTracks(q.nextSeek, search, <<>>, fNext.removedKeys)
        fHist == FilterTracks(q.history, search, <<>>, fSeek.removedKeys)
        q2 == [q1 EXCEPT !.nextSeek = fSeek.kept, !.history = fHist.kept]
        rCurr == IF Truthy(q.curr) THEN recursiveCompare(TrackObj(q.curr), search)
                 ELSE "false"
        q3 == IF rCurr = "true" THEN [q2 EXCEPT !.curr = Null] ELSE q2
        removedKeys == IF rCurr = "true" THEN Append(fHist.removedKeys, q.curr.key)
                       ELSE fHist.removedKeys
    IN IF fNext.threw THEN {Thrown(q)}
       ELSE IF fSeek.threw \/ fHist.threw THEN {Thrown(q1)}
       ELSE IF rCurr = "throw" THEN {Thrown(q2)}
       ELSE { Outcome(q4, <<"remove">>, removedKeys) : q4 \in refreshQueue(q3) }

\* clear() leaving the key counter as it is
clear_KeepCounter(q) ==
    {Outcome([q EXCEPT !.curr = Null, !.nextSeek = <<>>, !.history = <<>>,
                       !.next = <<>>],
             <<"clear">>, Undefined)}

clear(q) ==
    {Outcome([q EXCEPT !.curr = Null, !.nextSeek = <<>>, !.history = <<>>,
                       !.next = <<>>, !.tracksKeyCounter = 0],
             <<"clear">>, Undefined)}

isNextEmpty(q) ==
    IF q.seekSize > 0 THEN Len(q.nextSeek) = 0 ELSE Len(ObjectKeys(q.next)) = 0

isPrevEmpty(q) == Len(q.history) = 0

\* next() dropping the track it leaves instead of recording it in history
PushCurrToHistory_Forget(q) == q.history

\* if (this.queue.curr) this.queue.history.push(this.queue.curr)
PushCurrToHistory(q) == IF Truthy(q.curr) THEN Append(q.history, q.curr) ELSE q.history

\* next() when queue.next is empty: the lookahead is exhausted one by one
NextFromSeek(q) ==
    {Outcome([q EXCEPT !.history = PushCurrToHistory(q),
                       !.curr = q.nextSeek[1],
                       !.nextSeek = Splice(q.nextSeek, 0, 1)],
             <<>>, q.nextSeek[1])}

\* next() drawing from queue.next without `delete this.queue.next[key]`
NextFromPool_KeepDrawn(q, keys) ==
    { LET seek == Append(q.nextSeek, q.next[key])
      IN Outcome([q EXCEPT !.history = PushCurrToHistory(q),
                           !.curr = seek[1],
                           !.nextSeek = Splice(seek, 0, 1)],
                 <<"next">>, seek[1])
      : key \in (IF q.shuffleQueue
                 THEN { keys[i + 1] : i \in RandomIndex(Len(keys)) }
                 ELSE { keys[1] }) }

\* next() when queue.next holds tracks: one of them is drawn into the lookahead
NextFromPool(q, keys) ==
    { LET seek == Append(q.nextSeek, q.next[key])
      IN Outcome([q EXCEPT !.history = PushCurrToHistory(q),
                           !.curr = seek[1],
                           !.nextSeek = Splice(seek, 0, 1),
                           !.next = ObjDelete(q.next, key)],
                 <<"next">>, seek[1])
      : key \in (IF q.shuffleQueue
                 THEN { keys[i + 1] : i \in RandomIndex(Len(keys)) }
                 ELSE { keys[1] }) }

\* next() making a callback when there is nothing to advance to
next_NoisyWhenEmpty(q) ==
    IF isNextEmpty(q) THEN {Outcome(q, <<"next">>, Null)}
    ELSE LET keys == ObjectKeys(q.next)
         IN IF Len(keys) = 0 THEN NextFromSeek(q) ELSE NextFromPool(q, keys)

next_(q) ==
    IF isNextEmpty(q) THEN {Outcome(q, <<>>, Null)}
    ELSE LET keys == ObjectKeys(q.next)
         IN IF Len(keys) = 0 THEN NextFromSeek(q) ELSE NextFromPool(q, keys)

\* prev() reading the lookahead tail (nextSeek[length - 1]) where the code pops it:
\* the track is filed in queue.next and stays in the lookahead
prev_KeepTail(q) ==
    IF Len(q.history) = 0 THEN {Outcome(q, <<>>, Null)}
    ELSE LET seek == IF Truthy(q.curr) THEN <<q.curr>> \o q.nextSeek ELSE q.nextSeek
             popped == IF Len(seek) > 0 THEN seek[Len(seek)] ELSE Undefined
             q1 == [q EXCEPT !.nextSeek = seek,
                             !.next = IF Truthy(popped)
                                      THEN ObjSet(q.next, NumToString(popped.key), popped)
                                      ELSE q.next,
                             !.curr = q.history[Len(q.history)],
                             !.history = SubSeq(q.history, 1, Len(q.history) - 1)]
         IN {Outcome(q1, <<"prev">>, q1.curr)}

prev(q) ==
    IF Len(q.history) = 0 THEN {Outcome(q, <<>>, Null)}
    ELSE LET seek == IF Truthy(q.curr) THEN <<q.curr>> \o q.nextSeek ELSE q.nextSeek
             popped == IF Len(seek) > 0 THEN seek[Len(seek)] ELSE Undefined
             q1 == [q EXCEPT !.nextSeek = SubSeq(seek, 1, Len(seek) - 1),
                             !.next = IF Truthy(popped)
                                      THEN ObjSet(q.next, NumToString(popped.key), popped)
                                      ELSE q.next,
                             !.curr = q.history[Len(q.history)],
                             !.history = SubSeq(q.history, 1, Len(q.history) - 1)]
         IN {Outcome(q1, <<"prev">>, q1.curr)}

\* reset() emptying current without putting its track back into the pool
reset_DropCurrent(q) ==
    LET nx == AddToNext(AddToNext(q.next, q.history), q.nextSeek)
        q1 == [q EXCEPT !.next = nx,
                        !.history = <<>>, !.curr = Null, !.nextSeek = <<>>]
    IN { Outcome(q2, <<"reset">>, Undefined) : q2 \in refreshQueue(q1) }

\* reset() putting the lookahead and current back into the pool but not history
reset_DropHistory(q) ==
    LET nx == AddToNext(q.next, q.nextSeek)
        q1 == [q EXCEPT !.next = IF Truthy(q.curr) THEN AddToNext(nx, <<q.curr>>) ELSE nx,
                        !.history = <<>>, !.curr = Null, !.nextSeek = <<>>]
    IN { Outcome(q2, <<"reset">>, Undefined) : q2 \in refreshQueue(q1) }

\* reset() making its callback before the refresh
reset_CallbackBeforeRefresh(q) ==
    LET nx == AddToNext(AddToNext(q.next, q.history), q.nextSeek)
        q1 == [q EXCEPT !.next = IF Truthy(q.curr) THEN AddToNext(nx, <<q.curr>>) ELSE nx,
                        !.history = <<>>, !.curr = Null, !.nextSeek = <<>>]
    IN { [Outcome(q2, <<"reset">>, Undefined)
             EXCEPT !.cb = <<[tag |-> "reset", seen |-> q1]>>] : q2 \in refreshQueue(q1) }

reset(q) ==
    LET nx == AddToNext(AddToNext(q.next, q.history), q.nextSeek)
        q1 == [q EXCEPT !.next = IF Truthy(q.curr) THEN AddToNext(nx, <<q.curr>>) ELSE nx,
                        !.history = <<>>, !.curr = Null, !.nextSeek = <<>>]
    IN { Outcome(q2, <<"reset">>, Undefined) : q2 \in refreshQueue(q1) }

\* get current(): refreshes when there is no current track; no callback
current(q) ==
    IF ~Truthy(q.curr)
    THEN { Outcome(q2, <<>>, q2.curr) : q2 \in refreshQueue(q) }
    ELSE {Outcome(q, <<>>, q.curr)}

\* the seekLength setter without the refresh
setSeekLength_NoRefresh(q, len) ==
    {Outcome([q EXCEPT !.seekSize = len], <<"seekLength">>, Undefined)}

setSeekLength(q, len) ==
    { Outcome(q2, <<"seekLength">>, Undefined)
      : q2 \in refreshQueue([q EXCEPT !.seekSize = len]) }

setDefaultSeekLength(q) ==
    { Outcome(q2, <<"setDefaultSeekLength">>, Undefined)
      : q2 \in refreshQueue([q EXCEPT !.seekSize = DefaultSeekLength]) }

\* get seek(): prev lists the history from its most recent entry backwards
seek(q) ==
    LET prevSeekSize == Min(q.seekSize, Len(q.history))
    IN [next |-> q.nextSeek,
        prev |-> [i \in 1..prevSeekSize |-> q.history[Len(q.history) - i + 1]]]

\* the shuffle setter refreshing without putting the lookahead back
setShuffle_KeepLookahead(q, shuffleEnable) ==
    IF shuffleEnable = q.shuffleQueue THEN {Outcome(q, <<>>, Undefined)}
    ELSE { Outcome(q2, <<"shuffle">>, Undefined)
           : q2 \in refreshQueue([q EXCEPT !.shuffleQueue = shuffleEnable]) }

setShuffle(q, shuffleEnable) ==
    IF shuffleEnable = q.shuffleQueue THEN {Outcome(q, <<>>, Undefined)}
    ELSE { Outcome(q2, <<"shuffle">>, Undefined)
           : q2 \in refreshQueue([q EXCEPT !.shuffleQueue = shuffleEnable,
                                           !.next = AddToNext(q.next, q.nextSeek),
                                           !.nextSeek = <<>>]) }

(***************************************************************************)
(* The player ring.  p is the record of the closure variables of init():   *)
(* players, _currentPlayer, playersCount and the config fields the ring    *)
(* logic reads.  A player is [origin, src, paused, rewound, stopping]: src  *)
(* is its sourceNode.mediaElement.src, paused its mediaElement.paused,     *)
(* rewound tells that its mediaElement.currentTime is 0, and stopping that *)
(* the .then() callback of its latest playerPause is pending with          *)
(* player.state unchanged since (the one completion that will pause the    *)
(* element; the counter itself is the subject of the one-slot engine       *)
(* model below).  origin identifies the engine: an action                  *)
(* starts with every player's origin set to its index in the array         *)
(* (1-based), and createPlayer() yields origin 0, so that after the action *)
(* origin tells which engine of the state before, if any, the slot holds.  *)
(***************************************************************************)
createPlayer ==
    [origin |-> 0, src |-> "", paused |-> TRUE, rewound |-> TRUE, stopping |-> FALSE]

NewPlayerState ==
    [players |-> [i \in 1..(2 * DefaultPrefetchSize + 1) |-> createPlayer],
     currentPlayer |-> 0,
     playersCount |-> 2 * DefaultPrefetchSize + 1,
     prefetch |-> TRUE,
     prefetchSize |-> DefaultPrefetchSize,
     globalPlay |-> FALSE]

\* players[index] is an element of the array (otherwise it reads undefined)
HasPlayer(p, index) == index >= 0 /\ index < Len(p.players)

Result(p, threw) == [p |-> p, threw |-> threw]

\* for (let i = 0; i < playersCount; ++i) players[i] = createPlayer()
initPlayers(p) ==
    [p EXCEPT !.players =
        [i \in 1..(IF Len(p.players) > p.playersCount THEN Len(p.players)
                   ELSE p.playersCount)
          |-> IF i <= p.playersCount THEN createPlayer ELSE p.players[i]]]

getNextPlayers(p) ==
    [i \in 1..p.prefetchSize |->
        IF p.currentPlayer + i < p.playersCount THEN p.currentPlayer + i
        ELSE (p.currentPlayer + i) % p.playersCount]

getPrevPlayers(p) ==
    LET indexes == [i \in 1..p.prefetchSize |->
                       IF p.currentPlayer - i >= 0 THEN p.currentPlayer - i
                       ELSE p.currentPlayer - i + p.playersCount]
    IN [i \in 1..p.prefetchSize |-> indexes[p.prefetchSize - i + 1]]

playerCycleNext(p) ==
    [p EXCEPT !.currentPlayer =
        IF p.currentPlayer < p.playersCount - 1 THEN p.currentPlayer + 1 ELSE 0]

playerCyclePrev(p) ==
    [p EXCEPT !.currentPlayer =
        IF p.currentPlayer > 0 THEN p.currentPlayer - 1 ELSE p.playersCount - 1]

\* one forEach of updatePrefetch from position i on: the i-th player index
\* gets the src of the i-th seek entry, '' when there is none; reading a
\* player the array does not hold is a TypeError that ends the loop
RECURSIVE SetSources(_, _, _, _)
SetSources(p, indexes, seekTracks, i) ==
    IF i > Len(indexes) THEN Result(p, FALSE)
    ELSE IF ~HasPlayer(p, indexes[i]) THEN Result(p, TRUE)
    ELSE LET at == indexes[i] + 1
             src == IF i > Len(seekTracks) THEN ""
                    ELSE URLtoString(seekTracks[i].src)
         IN SetSources(IF p.players[at].src # src
                       THEN [p EXCEPT !.players[at].src = src] ELSE p,
                       indexes, seekTracks, i + 1)

updatePrefetch(q, p) ==
    LET nextPlayers == getNextPlayers(p)
        prevPlayers == getPrevPlayers(p)
        forward == SetSources(p, nextPlayers, seek(q).next, 1)
    IN IF forward.threw THEN forward
       ELSE SetSources(forward.p, prevPlayers, seek(q).prev, 1)

\* the else-branch of adjustPlayers: the two (three) splices on players
ShrinkPlayers(q, p) ==
    LET diff1 == Abs(2 * q.seekSize + 1 - p.playersCount)
        right0 == p.currentPlayer + q.seekSize + 1
        right1 == right0 + diff1
        r0 == IF right0 >= p.playersCount THEN p.playersCount ELSE right0
        r1 == IF right1 >= p.playersCount THEN p.playersCount ELSE right1
        afterRight == Splice(p.players, r0, r1 - r0)
        diff2 == Abs(2 * q.seekSize + 1 - Len(afterRight))
        left1 == p.currentPlayer - q.seekSize - 1
        left0 == left1 - diff2 + 1
        afterWrap == IF left0 < 0 THEN Splice(afterRight, left0, diff2) ELSE afterRight
        l0 == IF left0 < 0 THEN 0 ELSE left0
    IN Splice(afterWrap, l0, left1 - l0 + 1)

adjustPlayers(q, p) ==
    IF p.prefetchSize = q.seekSize THEN Result(p, FALSE)
    ELSE LET diff == 2 * q.seekSize + 1 - p.playersCount
             resized ==
               IF diff > 0
               THEN updatePrefetch(q,
                        initPlayers([p EXCEPT !.players = Append(p.players, createPlayer)]))
               ELSE Result([p EXCEPT !.players = ShrinkPlayers(q, p)], FALSE)
         IN IF resized.threw THEN resized
            ELSE Result([resized.p EXCEPT !.prefetchSize = q.seekSize,
                                          !.playersCount = 2 * q.seekSize + 1],
                        FALSE)

\* playerStop() without an index: every player paused and rewound
playerStop(p) ==
    [p EXCEPT !.players =
        [i \in 1..Len(p.players) |->
            [p.players[i] EXCEPT !.paused = TRUE, !.rewound = TRUE]]]

\* playerPause(player, fade) on a slot: the element is paused later, by the
\* .then() callback, if no command reached the player meanwhile
SlotPause(p, index) == [p EXCEPT !.players[index + 1].stopping = TRUE]

\* playerPlay(player, fade) on a slot: mediaElement.play() at once (the
\* playback position then leaves 0); an earlier pause is superseded
SlotPlay(p, index) ==
    [p EXCEPT !.players[index + 1].paused = FALSE,
              !.players[index + 1].rewound = FALSE,
              !.players[index + 1].stopping = FALSE]

\* the .then() callback of a slot's latest playerPause
SlotFadeCompletion(p, index) ==
    [p EXCEPT !.players[index + 1].paused = TRUE,
              !.players[index + 1].stopping = FALSE]

\* switchPlayers: touches players[newIndex], then players[oldIndex]
switchPlayers(p, oldIndex, newIndex) ==
    IF oldIndex = newIndex THEN Result(p, FALSE)
    ELSE IF ~HasPlayer(p, newIndex) \/ ~HasPlayer(p, oldIndex) THEN Result(p, TRUE)
    ELSE Result(SlotPlay(SlotPause(p, oldIndex), newIndex), FALSE)

(***************************************************************************)
(* queueMutationCallback(args): the set of outcomes [q, p, threw].  The    *)
(* callback reads ucpQueue.current, a getter that may refresh the queue.   *)
(***************************************************************************)
Delivered(q, p, threw) == [q |-> q, p |-> p, threw |-> threw]

\* "player switch and prefetch update", the end of the callback
SwitchAndPrefetch(q, p, oldCurrentIndex, newCurrentIndex) ==
    LET switched == IF p.globalPlay
                    THEN switchPlayers(p, oldCurrentIndex, newCurrentIndex)
                    ELSE Result(p, FALSE)
        updated == updatePrefetch(q, switched.p)
    IN IF switched.threw THEN Delivered(q, switched.p, TRUE)
       ELSE Delivered(q, updated.p, updated.threw)

\* players[_currentPlayer].sourceNode.mediaElement.src = src
SetCurrentSrc(p, src) == [p EXCEPT !.players[p.currentPlayer + 1].src = src]

queueMutationCallback(tag, q, p) ==
    LET old == p.currentPlayer
    IN CASE tag \in {"push", "pushMany"} ->
              { IF ~Truthy(c.ret) THEN SwitchAndPrefetch(c.q, p, old, old)
                ELSE IF ~HasPlayer(p, old) THEN Delivered(c.q, p, TRUE)
                ELSE SwitchAndPrefetch(c.q,
                        IF p.players[old + 1].src # URLtoString(c.ret.src)
                        THEN SetCurrentSrc(p, URLtoString(c.ret.src)) ELSE p,
                        old, old)
                : c \in current(q) }
         [] tag = "addNext" -> {SwitchAndPrefetch(q, p, old, old)}
         [] tag \in {"pop", "remove"} ->
              { SwitchAndPrefetch(c.q, IF ~Truthy(c.ret) THEN playerStop(p) ELSE p,
                                  old, old)
                : c \in current(q) }
         [] tag = "clear" ->
              { IF ~HasPlayer(p, old) THEN Delivered(q, playerStop(p), TRUE)
                ELSE SwitchAndPrefetch(q, SetCurrentSrc(playerStop(p), ""), old, old) }
         [] tag = "next" ->
              {SwitchAndPrefetch(q, playerCycleNext(p), old,
                                 playerCycleNext(p).currentPlayer)}
         [] tag = "prev" ->
              {SwitchAndPrefetch(q, playerCyclePrev(p), old,
                                 playerCyclePrev(p).currentPlayer)}
         [] tag = "reset" ->
              { IF ~HasPlayer(p, old) THEN Delivered(c.q, p, TRUE)
                ELSE SwitchAndPrefetch(c.q,
                        SetCurrentSrc(p, IF Truthy(c.ret) THEN URLtoString(c.ret.src)
                                         ELSE ""),
                        old, old)
                : c \in current(q) }
         [] tag \in {"seekLength", "setDefaultSeekLength"} ->
              { LET adjusted == adjustPlayers(q, p)
                IN IF adjusted.threw THEN Delivered(q, adjusted.p, TRUE)
                   ELSE SwitchAndPrefetch(q, adjusted.p, old, old) }
         [] tag = "shuffle" -> {SwitchAndPrefetch(q, p, old, old)}
         [] OTHER -> {Delivered(q, p, FALSE)}

\* the calls a method made to its registered callback, in order; `callback`
\* is "default" (the constructor's no-op) or "player" (set by initQueue)
RECURSIVE Deliver(_, _, _, _)
Deliver(callback, cb, q, p) ==
    IF cb = <<>> \/ callback = "default" THEN {Delivered(q, p, FALSE)}
    ELSE UNION { IF d.threw THEN {d} ELSE Deliver(callback, Tail(cb), d.q, d.p)
                 : d \in queueMutationCallback(Head(cb).tag, q, p) }

\* set prefetch(params) of the player; size 0 stands for an absent size too
setPrefetch(q, p, enabled, size) ==
    LET newSize == IF size # 0 THEN size ELSE DefaultPrefetchSize
        p1 == [p EXCEPT !.prefetch = enabled]
        p2 == [p1 EXCEPT !.prefetchSize = newSize]
    IN IF ~enabled
       THEN { [q |-> q, p |-> adjustPlayers(q, p1).p, cb |-> <<>>,
               threw |-> adjustPlayers(q, p1).threw] }
       ELSE UNION { { IF d.threw THEN [q |-> d.q, p |-> d.p, cb |-> r.cb, threw |-> TRUE]
                      ELSE [q |-> d.q, p |-> adjustPlayers(d.q, d.p).p, cb |-> r.cb,
                            threw |-> adjustPlayers(d.q, d.p).threw]
                      : d \in Deliver("player", r.cb, r.q, p2) }
                    : r \in setSeekLength(q, newSize) }

(***************************************************************************)
(* One slot's engine under playerPlay / playerPause.  e is                 *)
(*   [state     |-> player.state, the counter every command increments,    *)
(*    paused    |-> sourceNode.mediaElement.paused,                        *)
(*    crossfade |-> crossfadeNode.gain: "zero", "full" (globalGain), a     *)
(*                  ramp "toZero" / "toFull", or "held" where              *)
(*                  cancelAndHoldAtTime stopped a ramp,                    *)
(*    gain      |-> gainNode.gain: "zero" or "full" (globalGain),          *)
(*    pending   |-> the .then() callbacks not yet run, each                *)
(*                  [kind, playerState, timer]: timer tells a callback     *)
(*                  behind setTimeout from one behind a resolved promise], *)
(*    logged    |-> a .catch() handler has run makeLog,                    *)
(*    unhandled |-> a promise was rejected with no handler attached].      *)
(***************************************************************************)
NewEngine ==
    [state |-> 0, paused |-> TRUE, crossfade |-> "full", gain |-> "zero",
     pending |-> {}, logged |-> FALSE, unhandled |-> FALSE]

\* gain.cancelAndHoldAtTime(currentTime)
cancelAndHold(crossfade) ==
    IF crossfade \in {"toZero", "toFull"} THEN "held" ELSE crossfade

\* exponentialGainTransition(player.crossfadeNode, target, duration): the
\* crossfade gain it leaves; target is "zero" or "full"
exponentialGainTransition(e, target, fade) ==
    IF ~fade THEN target
    ELSE IF target = "zero" THEN "toZero" ELSE "toFull"

playerPause(e, fade) ==
    [e EXCEPT !.state = e.state + 1,
              !.crossfade = exponentialGainTransition(e, "zero", fade),
              !.pending = e.pending \cup
                  {[kind |-> "pause", playerState |-> e.state + 1, timer |-> fade]}]

playerPlay(e, fade) ==
    [e EXCEPT !.state = e.state + 1,
              !.paused = FALSE,
              !.crossfade = exponentialGainTransition(e, "full", fade),
              !.pending = e.pending \cup
                  {[kind |-> "play", playerState |-> e.state + 1, timer |-> fade]}]

\* playerPlay when the engine rejects mediaElement.play(): the element stays
\* as it was; the promise play() returned has no handler (line 266 drops it),
\* the gain transition and its .then() go on as usual
playerPlayRejected(e, fade) ==
    [playerPlay(e, fade) EXCEPT !.paused = e.paused, !.unhandled = TRUE]

\* the .then() callback c of playerPause when mediaElement.pause() throws in
\* it: the .catch() that follows logs, the lines after pause() are not run
pauseCompletionRejected(e, c) ==
    [e EXCEPT !.pending = e.pending \ {c}, !.logged = TRUE]

\* the .then() callbacks without `if (player.state === playerState)`
fadeCompletion_Unguarded(e, c) ==
    LET e1 == [e EXCEPT !.pending = e.pending \ {c}]
    IN IF c.kind = "pause"
       THEN [e1 EXCEPT !.paused = TRUE, !.crossfade = "zero"]
       ELSE [e1 EXCEPT !.crossfade = cancelAndHold(e.crossfade), !.gain = "full"]

\* the .then() callback c of playerPause / playerPlay, run
fadeCompletion(e, c) ==
    LET e1 == [e EXCEPT !.pending = e.pending \ {c}]
    IN IF e.state # c.playerState THEN e1
       ELSE IF c.kind = "pause"
       THEN [e1 EXCEPT !.paused = TRUE, !.crossfade = "zero"]
       ELSE [e1 EXCEPT !.crossfade = cancelAndHold(e.crossfade), !.gain = "full"]

\* what of the engine a callback can touch
EngineEffects(e) == [paused |-> e.paused, crossfade |-> e.crossfade, gain |-> e.gain]

(***************************************************************************)
(* State.                                                                  *)
(***************************************************************************)
VARIABLES
    history, curr, nextSeek, next,        \* this.queue
    shuffleQueue, tracksKeyCounter, seekSize,
    mutationCallback,                     \* which callback the queue holds
    players, currentPlayer, playersCount, \* the ring of init()
    prefetch, prefetchSize, globalPlay,   \* config fields
    threw,                                \* a call has ended in an uncaught TypeError
    engine,                               \* one slot under play/pause commands
    walk                                  \* a caller iterating the queue with next()

vars == <<history, curr, nextSeek, next, shuffleQueue, tracksKeyCounter, seekSize,
          mutationCallback, players, currentPlayer, playersCount,
          prefetch, prefetchSize, globalPlay, threw,
          engine, walk>>

Q == [history |-> history, curr |-> curr, nextSeek |-> nextSeek, next |-> next,
      shuffleQueue |-> shuffleQueue, tracksKeyCounter |-> tracksKeyCounter,
      seekSize |-> seekSize]

\* the player at the start of an action: every engine named by its index
P == [players |-> [i \in 1..Len(players) |-> [players[i] EXCEPT !.origin = i]],
      currentPlayer |-> currentPlayer, playersCount |-> playersCount,
      prefetch |-> prefetch, prefetchSize |-> prefetchSize,
      globalPlay |-> globalPlay]

SetQ(q) ==
    /\ history' = q.history
    /\ curr' = q.curr
    /\ nextSeek' = q.nextSeek
    /\ next' = q.next
    /\ shuffleQueue' = q.shuffleQueue
    /\ tracksKeyCounter' = q.tracksKeyCounter
    /\ seekSize' = q.seekSize

SetP(p) ==
    /\ players' = p.players
    /\ currentPlayer' = p.currentPlayer
    /\ playersCount' = p.playersCount
    /\ prefetch' = p.prefetch
    /\ prefetchSize' = p.prefetchSize
    /\ globalPlay' = p.globalPlay

\* the state after construction: a queue on its own (the constructor's no-op
\* callback), or the queue of a player (initQueue, initPlayers)
IsQ(q) ==
    /\ history = q.history
    /\ curr = q.curr
    /\ nextSeek = q.nextSeek
    /\ next = q.next
    /\ shuffleQueue = q.shuffleQueue
    /\ tracksKeyCounter = q.tracksKeyCounter
    /\ seekSize = q.seekSize

IsP(p) ==
    /\ players = p.players
    /\ currentPlayer = p.currentPlayer
    /\ playersCount = p.playersCount
    /\ prefetch = p.prefetch
    /\ prefetchSize = p.prefetchSize
    /\ globalPlay = p.globalPlay

Init ==
    /\ IsQ(NewQueue)
    /\ mutationCallback \in {"default", "player"}
    /\ IF mutationCallback = "player"
       THEN IsP(NewPlayerState)
       ELSE IsP([NewPlayerState EXCEPT !.players = <<>>])
    /\ threw = FALSE
    /\ engine = NewEngine
    /\ walk = [on |-> FALSE, visited |-> <<>>]

\* a public queue method called: one of its outcomes, its callbacks delivered.
\* A call that ended in a TypeError left the caller with an uncaught exception:
\* the run is not followed past it.
Call(outcomes) ==
    /\ ~threw
    /\ \E r \in outcomes :
        \E d \in Deliver(mutationCallback, r.cb, r.q, P) :
            /\ SetQ(d.q)
            /\ SetP(d.p)
            /\ threw' = (r.threw \/ d.threw)
            /\ UNCHANGED <<mutationCallback, engine, walk>>

\* the bound on the keys assigned
KeyBound == IF mutationCallback = "player" THEN MaxPlayerKey ELSE MaxKey

\* the search objects remove is called with
Searches ==
    { Obj(<<Prop("key", Num(k))>>) : k \in 1..KeyBound }
    \cup { Obj(<<Prop("data", FilterData)>>) }

\* the lists pushMany is called with
RECURSIVE TrackLists(_)
TrackLists(n) ==
    IF n = 0 THEN {<<>>}
    ELSE TrackLists(n - 1)
         \cup { Append(l, t) : l \in { x \in TrackLists(n - 1) : Len(x) = n - 1 },
                               t \in PrimitiveTracks }

Push ==
    /\ tracksKeyCounter < KeyBound
    /\ \E track \in PrimitiveTracks : Call(push(Q, track))

PushMany ==
    \E tracks \in TrackLists(MaxPushMany) :
        /\ tracksKeyCounter + Len(tracks) <= KeyBound
        /\ Call(pushMany(Q, tracks))

AddNext ==
    /\ tracksKeyCounter < KeyBound
    /\ \E track \in PrimitiveTracks : Call(addNext(Q, track))

Pop == Call(pop(Q))

Remove == \E search \in Searches : Call(remove(Q, search))

Clear == Call(clear(Q))

GoNext == Call(next_(Q))

Prev == Call(prev(Q))

Reset == Call(reset(Q))

GetCurrent == Call(current(Q))

SetSeekLength == \E len \in 0..MaxSeek : Call(setSeekLength(Q, len))

SetDefaultSeekLength == Call(setDefaultSeekLength(Q))

SetShuffle == \E shuffleEnable \in BOOLEAN : Call(setShuffle(Q, shuffleEnable))

SetPrefetch ==
    /\ ~threw
    /\ mutationCallback = "player"
    /\ \E enabled \in BOOLEAN, size \in 0..MaxSeek :
         \E r \in setPrefetch(Q, P, enabled, size) :
            /\ SetQ(r.q)
            /\ SetP(r.p)
            /\ threw' = r.threw
            /\ UNCHANGED <<mutationCallback, engine, walk>>

\* the public methods of the queue
Next ==
    \/ Push
    \/ PushMany
    \/ AddNext
    \/ Pop
    \/ Remove
    \/ Clear
    \/ GoNext
    \/ Prev
    \/ Reset
    \/ GetCurrent
    \/ SetSeekLength
    \/ SetDefaultSeekLength
    \/ SetShuffle

\* the queue on its own, holding the constructor's callback
InitQueue == Init /\ mutationCallback = "default"
Spec == InitQueue /\ [][Next]_vars

\* the queue of a player, driven through player.queue
InitPlayer == Init /\ mutationCallback = "player"
SpecPlayer == InitPlayer /\ [][Next]_vars

\* player.play() with the audio context running, and player.pause()
Play ==
    /\ ~threw
    /\ mutationCallback = "player"
    /\ IF HasPlayer(P, currentPlayer)
       THEN SetP(SlotPlay([P EXCEPT !.globalPlay = TRUE], currentPlayer)) /\ threw' = FALSE
       ELSE SetP([P EXCEPT !.globalPlay = TRUE]) /\ threw' = TRUE
    /\ UNCHANGED <<history, curr, nextSeek, next, shuffleQueue, tracksKeyCounter,
                   seekSize, mutationCallback, engine, walk>>

Pause ==
    /\ ~threw
    /\ mutationCallback = "player"
    /\ IF HasPlayer(P, currentPlayer)
       THEN SetP(SlotPause([P EXCEPT !.globalPlay = FALSE], currentPlayer)) /\ threw' = FALSE
       ELSE SetP([P EXCEPT !.globalPlay = FALSE]) /\ threw' = TRUE
    /\ UNCHANGED <<history, curr, nextSeek, next, shuffleQueue, tracksKeyCounter,
                   seekSize, mutationCallback, engine, walk>>

\* the pending completion of some slot's pause runs
CompleteFade ==
    /\ \E i \in 1..Len(players) :
         /\ players[i].stopping
         /\ SetP(SlotFadeCompletion(P, i - 1))
    /\ UNCHANGED <<history, curr, nextSeek, next, shuffleQueue, tracksKeyCounter,
                   seekSize, mutationCallback, threw, engine, walk>>

\* the player in use: the queue filled and cleared, tracks skipped, the
\* lookahead resized, playback started, fades completing
NextPlayback ==
    \/ Push
    \/ Clear
    \/ GoNext
    \/ Prev
    \/ SetSeekLength
    \/ Play
    \/ CompleteFade

SpecPlayback == InitPlayer /\ [][NextPlayback]_vars

\* playback on a ring that is never resized, pause() included
NextPlayPause ==
    \/ Push
    \/ Clear
    \/ GoNext
    \/ Prev
    \/ Play
    \/ Pause
    \/ CompleteFade

SpecPlayPause == InitPlayer /\ [][NextPlayPause]_vars

\* the same with the player's own prefetch setter among the calls
NextPrefetch == Next \/ SetPrefetch
SpecPrefetch == InitPlayer /\ [][NextPrefetch]_vars

\* the public methods without clear(): the calls that keep the key counter
NextKeepKeys ==
    \/ Push
    \/ PushMany
    \/ AddNext
    \/ Pop
    \/ Remove
    \/ GoNext
    \/ Prev
    \/ Reset
    \/ GetCurrent
    \/ SetSeekLength
    \/ SetDefaultSeekLength
    \/ SetShuffle

SpecKeepKeys == InitQueue /\ [][NextKeepKeys]_vars

\* a play or pause command reaches the slot: play(), pause(), switchPlayers
PlayerPause ==
    /\ engine.state < MaxCommands
    /\ \E fade \in BOOLEAN : engine' = playerPause(engine, fade)
    /\ UNCHANGED <<history, curr, nextSeek, next, shuffleQueue, tracksKeyCounter,
                   seekSize, mutationCallback, players, currentPlayer, playersCount,
                   prefetch, prefetchSize, globalPlay, threw, walk>>

PlayerPlay ==
    /\ engine.state < MaxCommands
    /\ \E fade \in BOOLEAN : engine' = playerPlay(engine, fade)
    /\ UNCHANGED <<history, curr, nextSeek, next, shuffleQueue, tracksKeyCounter,
                   seekSize, mutationCallback, players, currentPlayer, playersCount,
                   prefetch, prefetchSize, globalPlay, threw, walk>>

\* a pending .then() callback runs: those behind a resolved promise
\* (microtasks) before any that waits for its timer
FadeCompletion ==
    /\ \E c \in engine.pending :
         /\ c.timer => \A m \in engine.pending : m.timer
         /\ engine' = fadeCompletion(engine, c)
    /\ UNCHANGED <<history, curr, nextSeek, next, shuffleQueue, tracksKeyCounter,
                   seekSize, mutationCallback, players, currentPlayer, playersCount,
                   prefetch, prefetchSize, globalPlay, threw, walk>>

\* a play command that the engine rejects
PlayerPlayRejected ==
    /\ engine.state < MaxCommands
    /\ \E fade \in BOOLEAN : engine' = playerPlayRejected(engine, fade)
    /\ UNCHANGED <<history, curr, nextSeek, next, shuffleQueue, tracksKeyCounter,
                   seekSize, mutationCallback, players, currentPlayer, playersCount,
                   prefetch, prefetchSize, globalPlay, threw, walk>>

\* the completion of the slot's latest pause runs and the engine rejects the pause
PauseCompletionRejected ==
    /\ \E c \in engine.pending :
         /\ c.timer => \A m \in engine.pending : m.timer
         /\ c.kind = "pause" /\ c.playerState = engine.state
         /\ engine' = pauseCompletionRejected(engine, c)
    /\ UNCHANGED <<history, curr, nextSeek, next, shuffleQueue, tracksKeyCounter,
                   seekSize, mutationCallback, players, currentPlayer, playersCount,
                   prefetch, prefetchSize, globalPlay, threw, walk>>

\* one slot of the player under play/pause commands and their completions
NextFade == PlayerPause \/ PlayerPlay \/ FadeCompletion
SpecFade == InitPlayer /\ [][NextFade]_vars

\* the same with an engine that may reject a play or a pause
NextEngineFailure ==
    PlayerPause \/ PlayerPlay \/ FadeCompletion \/ PlayerPlayRejected \/ PauseCompletionRejected
SpecEngineFailure == InitPlayer /\ [][NextEngineFailure]_vars

\* A caller that fills a queue and then iterates it as the shuffle test does:
\*   keys.add(queue.current?.key); while (!queue.isNextEmpty) keys.add(queue.next()?.key)
\* walk.visited lists the keys the getter and the next() calls returned.
KeyOf(ret) == IF Truthy(ret) THEN <<ret.key>> ELSE <<>>

StartWalk ==
    /\ ~walk.on
    /\ \E c \in current(Q) :
         /\ SetQ(c.q)
         /\ walk' = [on |-> TRUE, visited |-> KeyOf(c.ret)]
    /\ UNCHANGED <<mutationCallback, players, currentPlayer, playersCount,
                   prefetch, prefetchSize, globalPlay, threw, engine>>

WalkNext ==
    /\ walk.on
    /\ ~isNextEmpty(Q)
    /\ Len(walk.visited) <= KeyBound
    /\ \E n \in next_(Q) :
         /\ SetQ(n.q)
         /\ walk' = [walk EXCEPT !.visited = walk.visited \o KeyOf(n.ret)]
    /\ UNCHANGED <<mutationCallback, players, currentPlayer, playersCount,
                   prefetch, prefetchSize, globalPlay, threw, engine>>

\* the queue is filled by pushes alone (history stays empty), under any seek
\* length and shuffle setting, and then iterated
NextShuffleWalk ==
    \/ ~walk.on /\ (Push \/ PushMany \/ SetSeekLength \/ SetShuffle)
    \/ StartWalk
    \/ WalkNext
SpecShuffleWalk == InitQueue /\ [][NextShuffleWalk]_vars

(***************************************************************************)
(* Properties.                                                             *)
(***************************************************************************)
\* the tags of the callbacks a call made, in order
Tags(cb) == [i \in 1..Len(cb) |-> cb[i].tag]

PoolEmpty == DOMAIN next = {}

\* the keys held, container by container (the pool by its tracks' keys)
HeldKeys ==
    [i \in 1..Len(history) |-> history[i].key]
    \o (IF Truthy(curr) THEN <<curr.key>> ELSE <<>>)
    \o [i \in 1..Len(nextSeek) |-> nextSeek[i].key]
    \o [i \in 1..Len(ObjectKeys(next)) |-> next[ObjectKeys(next)[i]].key]

\* C1: in every reachable state the lookahead is no longer than seekSize, and
\* when seekSize > 0 and the pool or the lookahead holds a track, there is a
\* current track.
C1_SettleInvariant ==
    /\ Len(nextSeek) <= seekSize
    /\ (seekSize > 0 /\ (~PoolEmpty \/ nextSeek # <<>>)) => Truthy(curr)

\* C1 witness: more tracks were added than current and the lookahead take;
\* the lookahead stands at seekSize and the rest is in the pool.
C1_Witness ==
    /\ seekSize > 0
    /\ Len(nextSeek) = seekSize
    /\ ~PoolEmpty
    /\ Truthy(curr)

\* C2 (as claimed): after any public queue operation the queue is settled: the
\* lookahead is shorter than seekSize only when the pool is empty, and there
\* is a current track whenever the lookahead or the pool holds one.
C2_Settled ==
    /\ Len(nextSeek) < seekSize => PoolEmpty
    /\ ~Truthy(curr) => (PoolEmpty /\ nextSeek = <<>>)

\* C3: in every reachable state no key is held twice, in one container or in
\* two, and every pool entry is filed under its own key.
C3_KeysUnique ==
    /\ \A i, j \in 1..Len(HeldKeys) : HeldKeys[i] = HeldKeys[j] => i = j
    /\ \A k \in DOMAIN next : parseInt(k) = next[k].key

\* C3 witness: prev() is about to move the current track to the lookahead and
\* the lookahead tail to the pool, with tracks held in all four containers
\* or, the lookahead being empty, in the other three.
C3_Witness ==
    /\ history # <<>>
    /\ Truthy(curr)
    /\ ~PoolEmpty
    /\ \E b \in prev(Q) : NumToString(curr.key) \in DOMAIN b.q.next
                          \/ b.q.nextSeek # <<>>

\* C4 (as claimed): from every reachable state in which next() returns a
\* track, next() followed at once by prev() restores current to the same track
\* and leaves the lengths of history and lookahead as they were.
C4_NextPrevRoundTrip ==
    \A n \in next_(Q) :
        Truthy(n.ret) =>
            \A b \in prev(n.q) :
                /\ b.q.curr = curr
                /\ Len(b.q.history) = Len(history)
                /\ Len(b.q.nextSeek) = Len(nextSeek)

\* C5 (as claimed): in every reachable state where the lookahead or the pool
\* holds a track, next() returns a track and that track is the new current.
C5_NextAdvances ==
    (nextSeek # <<>> \/ ~PoolEmpty) =>
        \A n \in next_(Q) : Truthy(n.ret) /\ n.q.curr = n.ret

\* C6 (as claimed): from every reachable state, a next() that returns a track
\* makes exactly one callback, with tag 'next', and makes it when the queue is
\* already in the state the call leaves.
C6_NextCallbackOnce ==
    \A n \in next_(Q) :
        Truthy(n.ret) =>
            /\ Tags(n.cb) = <<"next">>
            /\ n.cb[1].seen = n.q

C8_RingSize ==
    mutationCallback = "player" =>
        /\ Len(players) = 2 * seekSize + 1
        /\ playersCount = Len(players)

\* C9 (as claimed): a change of seekLength made while a slot is current leaves
\* that slot's engine in the ring.
C9_ResizeKeepsCurrentEngine ==
    [][ (/\ mutationCallback = "player"
         /\ seekSize' # seekSize
         /\ currentPlayer < Len(players))
        => \E i \in 1..Len(players') : players'[i].origin = currentPlayer + 1 ]_vars

\* C10 (as claimed): a next() that returns a track moves the ring pointer one
\* slot forward, a prev() that returns a track moves it one slot backward
\* (both modulo the slot count), and no step other than a next() or a prev()
\* moves it.
C10_PointerCycledOnce ==
    /\ [](mutationCallback = "player" =>
            /\ \A n \in next_(Q) :
                 Truthy(n.ret) =>
                    \A d \in Deliver(mutationCallback, n.cb, n.q, P) :
                        d.p.currentPlayer = (currentPlayer + 1) % playersCount
            /\ \A b \in prev(Q) :
                 Truthy(b.ret) =>
                    \A d \in Deliver(mutationCallback, b.cb, b.q, P) :
                        d.p.currentPlayer = (currentPlayer - 1) % playersCount)
    /\ [][ (mutationCallback = "player" /\ currentPlayer' # currentPlayer)
           => (GoNext \/ Prev) ]_vars

\* what a call does to the queue and the callbacks it makes, without the
\* value it returns
Effects(outcomes) == { [q |-> o.q, cb |-> o.cb, threw |-> o.threw] : o \in outcomes }

\* every public call that can be made on the queue in this state, by its
\* effects (the inputs are those of the actions)
PublicCalls ==
    (IF tracksKeyCounter < KeyBound
     THEN UNION { Effects(push(Q, track)) \cup Effects(addNext(Q, track))
                  : track \in PrimitiveTracks }
     ELSE {})
    \cup UNION { Effects(pushMany(Q, tracks))
                 : tracks \in { l \in TrackLists(MaxPushMany)
                                : tracksKeyCounter + Len(l) <= KeyBound } }
    \cup Effects(pop(Q))
    \cup UNION { Effects(remove(Q, search)) : search \in Searches }
    \cup Effects(clear(Q)) \cup Effects(next_(Q)) \cup Effects(prev(Q))
    \cup Effects(reset(Q)) \cup Effects(current(Q))
    \cup UNION { Effects(setSeekLength(Q, len)) : len \in 0..MaxSeek }
    \cup Effects(setDefaultSeekLength(Q))
    \cup UNION { Effects(setShuffle(Q, shuffleEnable)) : shuffleEnable \in BOOLEAN }

\* the src the slot `offset` places ahead (offset > 0) or behind (offset < 0) of the
\* current slot holds, "none" when the ring has no such slot
SlotSrc(p, offset) ==
    LET index == (p.currentPlayer + offset) % p.playersCount
    IN IF HasPlayer(p, index) THEN p.players[index + 1].src ELSE "none"

\* C11 (as claimed): after every public queue operation that returned, the
\* i-th slot ahead of the current slot (i = 1..seekSize) holds the src of the
\* i-th lookahead track, and a blank src when the lookahead has no i-th track.
C11_ForwardSlotsFollowLookahead ==
    (mutationCallback = "player" /\ ~threw) =>
        \A i \in 1..seekSize :
            SlotSrc(P, i) = IF i <= Len(nextSeek) THEN URLtoString(nextSeek[i].src)
                            ELSE ""

\* C12 (as claimed): after every mutation callback that ran to its end, the
\* slot k places behind the current slot (k = 1..seekSize) holds the src of
\* the k-th most recent history track, and a blank src when history has fewer
\* than k tracks.
C12_BackwardSlotsFollowHistory ==
    mutationCallback = "player" =>
        \A r \in PublicCalls :
            r.cb # <<>> =>
                \A d \in Deliver(mutationCallback, r.cb, r.q, P) :
                    ~d.threw =>
                        \A k \in 1..d.q.seekSize :
                            SlotSrc(d.p, 0 - k) =
                                IF k <= Len(d.q.history)
                                THEN URLtoString(
                                       d.q.history[Len(d.q.history) - k + 1].src)
                                ELSE ""

\* C13: a completion whose command is no longer the slot's latest (a newer
\* play or pause was issued to the slot since) changes nothing of the engine:
\* not the paused flag, not the crossfade gain, not the gain; at most one
\* pending completion belongs to the latest command, and it takes effect (a
\* pause's pauses the element and zeroes the crossfade gain, a play's sets
\* the gain).
C13_StaleCompletionDiscarded ==
    /\ \A c \in engine.pending :
         IF c.playerState # engine.state
         THEN EngineEffects(fadeCompletion(engine, c)) = EngineEffects(engine)
         ELSE IF c.kind = "pause"
         THEN /\ fadeCompletion(engine, c).paused
              /\ fadeCompletion(engine, c).crossfade = "zero"
         ELSE fadeCompletion(engine, c).gain = "full"
    /\ \A c, d \in engine.pending :
         (c.playerState = engine.state /\ d.playerState = engine.state) => c = d

\* C13 witness: a fade-out is still waiting for its timer, a play was issued
\* to the slot after it and the element is playing; the fade-out's completion
\* runs and the element keeps playing.
C13_Witness ==
    \E c \in engine.pending :
        /\ c.kind = "pause" /\ c.timer
        /\ c.playerState < engine.state
        /\ ~engine.paused
        /\ ~fadeCompletion(engine, c).paused
        /\ \A m \in engine.pending : m.timer

\* C14: a queue filled by N pushes, shuffle enabled, is iterated by reading
\* current and calling next() until isNextEmpty: whatever the random draws,
\* no key is returned twice, every next() on the way returns a track, and
\* when isNextEmpty holds the keys returned are exactly the N keys pushed.
C14_ShuffleCoverage ==
    (walk.on /\ shuffleQueue) =>
        /\ \A i, j \in 1..Len(walk.visited) :
             walk.visited[i] = walk.visited[j] => i = j
        /\ \A i \in 1..Len(walk.visited) : walk.visited[i] \in 1..tracksKeyCounter
        /\ ~isNextEmpty(Q) => \A n \in next_(Q) : Truthy(n.ret)
        /\ isNextEmpty(Q) =>
             { walk.visited[i] : i \in 1..Len(walk.visited) } = 1..tracksKeyCounter

\* C14 witness: the iteration of three shuffled tracks has come to its end
\* and returned them in an order other than that of the pushes.
C14_Witness ==
    /\ walk.on /\ shuffleQueue
    /\ isNextEmpty(Q)
    /\ tracksKeyCounter = 3
    /\ Len(walk.visited) = 3
    /\ walk.visited # <<1, 2, 3>>

\* the sequences of n different elements of S
Arrangements(S, n) ==
    { a \in [1..n -> S] : \A i, j \in 1..n : a[i] = a[j] => i = j }

\* the pool keys of q as numbers
PoolKeys(q) == { q.next[k].key : k \in DOMAIN q.next }

\* the keys a refill appended to the lookahead, which was `before` long
Drawn(q, before) == [i \in 1..(Len(q.nextSeek) - before) |-> q.nextSeek[before + i].key]

\* C15: with shuffle enabled, (a) when the lookahead is refilled for a longer
\* seek length, the draws range over every sequence of different pool tracks
\* of the needed length and over nothing else, and each outcome takes exactly
\* the drawn tracks out of the pool; (b) a next() made with a non-empty pool
\* can draw every pool track and only a pool track, takes exactly that track
\* out of the pool and puts it at the lookahead tail (or in current when the
\* lookahead is empty).
C15_ShuffleDrawsFromWholePool ==
    shuffleQueue =>
        /\ \A len \in (Len(nextSeek) + 1)..MaxSeek :
             LET q1 == [Q EXCEPT !.seekSize = len]
                 needed == Min(len - Len(nextSeek), Cardinality(PoolKeys(Q)))
                 refills == adjustNextSeek(q1)
             IN /\ { Drawn(q2, Len(nextSeek)) : q2 \in refills }
                     = Arrangements(PoolKeys(Q), needed)
                /\ \A q2 \in refills :
                     /\ SubSeq(q2.nextSeek, 1, Len(nextSeek)) = nextSeek
                     /\ PoolKeys(q2) = PoolKeys(Q)
                            \ { Drawn(q2, Len(nextSeek))[i] : i \in 1..needed }
        /\ (~PoolEmpty /\ ~isNextEmpty(Q)) =>
             /\ { PoolKeys(Q) \ PoolKeys(n.q) : n \in next_(Q) }
                  = { {k} : k \in PoolKeys(Q) }
             /\ \A n \in next_(Q) :
                  /\ PoolKeys(n.q) \subseteq PoolKeys(Q)
                  /\ LET seekAfter == <<n.q.curr>> \o n.q.nextSeek
                     IN PoolKeys(Q) \ PoolKeys(n.q) = {seekAfter[Len(seekAfter)].key}

\* C15 witness: shuffle is enabled, the pool holds two tracks and the
\* lookahead is shorter than the largest seek length, so that a refill has
\* two draws to make and next() has two tracks to draw from.
C15_Witness ==
    /\ shuffleQueue
    /\ Cardinality(PoolKeys(Q)) = 2
    /\ Len(nextSeek) + 2 <= MaxSeek
    /\ ~isNextEmpty(Q)
    /\ Cardinality({ n.q.curr : n \in next_(Q) }) = 2

\* C16: with shuffle disabled and a non-empty pool, tracks put back into the
\* pool are drawn after the tracks that were in the pool before them:
\* (a) when the lookahead is put back by a shrink of the seek length to 0,
\* the track drawn by growing it to 1 again is one of the earlier pool tracks;
\* (b) when prev() puts the lookahead tail back, the track the following
\* next() takes out of the pool is one of the earlier pool tracks.
C16_PoolDrawnInInsertionOrder ==
    (~shuffleQueue /\ ~PoolEmpty) =>
        /\ Len(nextSeek) > 0 =>
             \A a \in setSeekLength(Q, 0) : \A b \in setSeekLength(a.q, 1) :
                 \A i \in 1..Len(b.q.nextSeek) : b.q.nextSeek[i].key \in PoolKeys(Q)
        /\ \A a \in prev(Q) : PoolKeys(a.q) # PoolKeys(Q) =>
             \A b \in next_(a.q) : PoolKeys(a.q) \ PoolKeys(b.q) \subseteq PoolKeys(Q)

\* the pool of q without the track of key k
PoolWithout(q, k) == [j \in { i \in DOMAIN q.next : q.next[i].key # k } |-> q.next[j]]

\* C17: pop() removes exactly one track, chosen by priority: with a non-empty
\* pool the last track of the pool's enumeration (the largest key), else the
\* lookahead tail, else current; it returns the key of the track removed and
\* changes nothing else; it never changes history; it returns -1 exactly when
\* pool, lookahead and current are all empty, and then changes nothing.
C17_PopPriority ==
    \A o \in pop(Q) :
        /\ ~o.threw
        /\ o.q.history = history
        /\ (o.ret = -1) <=> (PoolEmpty /\ nextSeek = <<>> /\ ~Truthy(curr))
        /\ ~PoolEmpty =>
             /\ o.ret \in PoolKeys(Q) /\ \A k \in PoolKeys(Q) : k <= o.ret
             /\ o.q = [Q EXCEPT !.next = PoolWithout(Q, o.ret)]
        /\ (PoolEmpty /\ nextSeek # <<>>) =>
             /\ o.ret = nextSeek[Len(nextSeek)].key
             /\ o.q = [Q EXCEPT !.nextSeek = SubSeq(nextSeek, 1, Len(nextSeek) - 1)]
        /\ (PoolEmpty /\ nextSeek = <<>> /\ Truthy(curr)) =>
             /\ o.ret = curr.key
             /\ o.q = [Q EXCEPT !.curr = Null]
        /\ (PoolEmpty /\ nextSeek = <<>> /\ ~Truthy(curr)) => o.q = Q

\* C17 witness: current, the lookahead and the pool all hold a track, and
\* pop() takes the pool's track and leaves the lookahead and current alone.
C17_Witness ==
    /\ Truthy(curr) /\ nextSeek # <<>> /\ ~PoolEmpty
    /\ \E o \in pop(Q) : /\ o.ret \in PoolKeys(Q)
                         /\ o.q.nextSeek = nextSeek /\ o.q.curr = curr
                         /\ PoolKeys(o.q) = {}

\* the tracks q holds, in whatever container
HeldTracks(q) ==
    { q.history[i] : i \in 1..Len(q.history) }
    \cup (IF Truthy(q.curr) THEN {q.curr} ELSE {})
    \cup { q.nextSeek[i] : i \in 1..Len(q.nextSeek) }
    \cup { q.next[k] : k \in DOMAIN q.next }

\* track tr satisfies the filter: it has the key the filter names, and every
\* data field the filter names with the same value
Matches(tr, search) ==
    \A i \in 1..Len(search.o) :
        LET p == search.o[i]
        IN /\ p.k = "key" => tr.key = p.v.n
           /\ p.k = "data" =>
                \A j \in 1..Len(p.v.o) : \E m \in 1..Len(tr.data.o) : tr.data.o[m] = p.v.o[j]

\* C18: remove(filter) returns the keys of the tracks held in the pool, the
\* lookahead, history or current that match the filter, each once and no
\* other key; afterwards the tracks held are exactly the tracks that were
\* held and do not match.
C18_RemoveExactlyMatching ==
    \A search \in Searches : \A o \in remove(Q, search) :
        LET matching == { tr \in HeldTracks(Q) : Matches(tr, search) }
        IN /\ ~o.threw
           /\ { o.ret[i] : i \in 1..Len(o.ret) } = { tr.key : tr \in matching }
           /\ \A i, j \in 1..Len(o.ret) : o.ret[i] = o.ret[j] => i = j
           /\ HeldTracks(o.q) = HeldTracks(Q) \ matching

\* C18 witness: a remove by data matches a track of history and a track
\* elsewhere, returns both keys, and leaves a track that does not match.
C18_Witness ==
    \E search \in Searches : \E o \in remove(Q, search) :
        /\ Len(o.ret) = 2
        /\ \E i \in 1..Len(history) : Matches(history[i], search)
        /\ Len(o.q.history) < Len(history)
        /\ HeldTracks(o.q) # {}

\* the tracks of a sequence that do not match the filter, in order
RECURSIVE Surviving(_, _)
Surviving(tracks, search) ==
    IF tracks = <<>> THEN <<>>
    ELSE (IF Matches(Head(tracks), search) THEN <<>> ELSE <<Head(tracks)>>)
         \o Surviving(Tail(tracks), search)

\* C19: when remove(filter) matches the current track, current afterwards is
\* the first lookahead track that does not match; with no such track (as
\* always when seekSize is 0) it is a pool track that does not match; it is
\* empty exactly when no lookahead or pool track survives.  History only
\* loses its matching tracks: none of them becomes current.
C19_RemoveCurrentRefilled ==
    \A search \in Searches : \A o \in remove(Q, search) :
        (Truthy(curr) /\ Matches(curr, search)) =>
            LET survSeek == Surviving(nextSeek, search)
                survPool == { next[k] : k \in { j \in DOMAIN next : ~Matches(next[j], search) } }
            IN /\ survSeek # <<>> => o.q.curr = survSeek[1]
               /\ (survSeek = <<>> /\ survPool # {}) => o.q.curr \in survPool
               /\ ~Truthy(o.q.curr) <=> (survSeek = <<>> /\ survPool = {})
               /\ o.q.history = Surviving(history, search)

\* C19 witness: the filter matches current and the head of the lookahead, and
\* the second lookahead track becomes current.
C19_Witness ==
    \E search \in Searches : \E o \in remove(Q, search) :
        /\ Truthy(curr) /\ Matches(curr, search)
        /\ Len(nextSeek) = 2 /\ Matches(nextSeek[1], search)
        /\ o.q.curr = nextSeek[2]

\* C20: a public call that returns with history, current, the lookahead, the
\* pool, seekSize, the shuffle flag and the key counter all as they were makes
\* no mutation callback.
C20_NoOpsSilent ==
    \A r \in PublicCalls : (~r.threw /\ r.q = Q) => r.cb = <<>>

\* every outcome of a call that returned with the queue changed made one
\* callback, with the given tag, which saw the queue as the call left it
CallsBackOnce(outcomes, tag) ==
    \A o \in outcomes : (~o.threw /\ o.q # Q) =>
        /\ Len(o.cb) = 1
        /\ o.cb[1].tag = tag
        /\ o.cb[1].seen = o.q

\* C21: each call of push, pushMany, addNext, remove, clear, prev, reset, the
\* seekLength setter, setDefaultSeekLength and the shuffle setter that changes
\* the queue invokes the mutation callback exactly once, with the tag named
\* after the operation, and the callback sees the queue as the operation
\* leaves it.
C21_CallbackOncePerMutation ==
    /\ tracksKeyCounter < KeyBound =>
         \A track \in PrimitiveTracks :
             /\ CallsBackOnce(push(Q, track), "push")
             /\ CallsBackOnce(addNext(Q, track), "addNext")
    /\ \A tracks \in { l \in TrackLists(MaxPushMany) : tracksKeyCounter + Len(l) <= KeyBound } :
         CallsBackOnce(pushMany(Q, tracks), "pushMany")
    /\ \A search \in Searches : CallsBackOnce(remove(Q, search), "remove")
    /\ CallsBackOnce(clear(Q), "clear")
    /\ CallsBackOnce(prev(Q), "prev")
    /\ CallsBackOnce(reset(Q), "reset")
    /\ \A len \in 0..MaxSeek : CallsBackOnce(setSeekLength(Q, len), "seekLength")
    /\ CallsBackOnce(setDefaultSeekLength(Q), "setDefaultSeekLength")
    /\ \A shuffleEnable \in BOOLEAN : CallsBackOnce(setShuffle(Q, shuffleEnable), "shuffle")

\* C21 witness: history holds a track and reset() changes the queue, its one
\* callback seeing the refilled queue.
C21_Witness ==
    /\ history # <<>>
    /\ \E o \in reset(Q) : /\ o.q # Q /\ Truthy(o.q.curr) /\ o.q.nextSeek # <<>>
                           /\ Len(o.cb) = 1 /\ o.cb[1].seen = o.q

\* C22: next() returns null exactly when isNextEmpty is true, prev() returns
\* null exactly when isPrevEmpty is true, pop() returns -1 when pool, lookahead
\* and current are empty; none of them throws, and in each of these cases the
\* queue is unchanged and no callback is made.
C22_SentinelsChangeNothing ==
    /\ \A o \in next_(Q) :
         /\ ~o.threw
         /\ (o.ret = Null) <=> isNextEmpty(Q)
         /\ isNextEmpty(Q) => (o.q = Q /\ o.cb = <<>>)
    /\ \A o \in prev(Q) :
         /\ ~o.threw
         /\ (o.ret = Null) <=> isPrevEmpty(Q)
         /\ isPrevEmpty(Q) => (o.q = Q /\ o.cb = <<>>)
    /\ \A o \in pop(Q) :
         /\ ~o.threw
         /\ (PoolEmpty /\ nextSeek = <<>> /\ ~Truthy(curr)) =>
                (o.ret = -1 /\ o.q = Q /\ o.cb = <<>>)

\* C22 witness: the queue was played to its end (history held, nothing next)
\* and next() returns null; after the last track was popped, pop() returns -1.
C22_Witness ==
    /\ history # <<>> /\ isNextEmpty(Q) /\ ~isPrevEmpty(Q)
    /\ ~Truthy(curr) /\ PoolEmpty
    /\ \E o \in next_(Q) : o.ret = Null
    /\ \E o \in pop(Q) : o.ret = -1

\* C23: over sequences of calls without clear(), the key counter never drops
\* and bounds every key held, so that it bounds every key issued so far; a
\* push returns a key above it, and a pushMany of n tracks returns the n tracks
\* in input order with the n keys that follow it.
C23_PushKeysIncrease ==
    /\ [](/\ \A tr \in HeldTracks(Q) : tr.key <= tracksKeyCounter
          /\ tracksKeyCounter < KeyBound =>
               \A track \in PrimitiveTracks : \A o \in push(Q, track) :
                   /\ o.ret > tracksKeyCounter
                   /\ o.q.tracksKeyCounter = o.ret
                   /\ MakeTrack(track, o.ret) \in HeldTracks(o.q)
          /\ \A tracks \in { l \in TrackLists(MaxPushMany)
                             : tracksKeyCounter + Len(l) <= KeyBound } :
               \A o \in pushMany(Q, tracks) :
                   /\ Len(o.ret) = Len(tracks)
                   /\ \A i \in 1..Len(tracks) :
                        /\ o.ret[i] = MakeTrack(tracks[i], tracksKeyCounter + i)
                        /\ o.ret[i] \in HeldTracks(o.q)
                   /\ o.q.tracksKeyCounter = tracksKeyCounter + Len(tracks))
    /\ [][tracksKeyCounter' >= tracksKeyCounter]_vars

\* C23 witness: key 1 was issued and its track removed again, and a pushMany
\* of two different tracks returns them in order with keys 2 and 3.
C23_Witness ==
    /\ tracksKeyCounter = 1 /\ HeldTracks(Q) = {}
    /\ \E tracks \in TrackLists(MaxPushMany) : \E o \in pushMany(Q, tracks) :
         /\ Len(tracks) = 2 /\ tracks[1] # tracks[2]
         /\ o.ret[1].key = 2 /\ o.ret[2].key = 3
         /\ o.ret[1].src = tracks[1].src /\ o.ret[2].src = tracks[2].src

\* C24 (as claimed): over any sequence of public calls the key counter only
\* increments.
C24_CounterOnlyIncrements == [][tracksKeyCounter' >= tracksKeyCounter]_vars

\* C24 (amended): the key counter bounds every key held; a call either leaves
\* it at least as large or, as clear() does, removes every track and sets it
\* to 0; and every track a call adds gets a key above the counter, so that no
\* key is assigned twice between two clear() calls, even when its track was
\* removed.
C24_KeysNotReusedUntilClear ==
    /\ [](\A tr \in HeldTracks(Q) : tr.key <= tracksKeyCounter)
    /\ [][\/ tracksKeyCounter' >= tracksKeyCounter
          \/ (tracksKeyCounter' = 0 /\ HeldTracks(Q)' = {})]_vars
    /\ [][\A tr \in HeldTracks(Q)' \ HeldTracks(Q) :
              tr.key > tracksKeyCounter /\ tr.key <= tracksKeyCounter']_vars

\* C24 witness: keys 1, 2 and 3 were issued, the track of key 2 was removed,
\* and no held track has key 2.
C24_Witness ==
    /\ tracksKeyCounter = 3
    /\ { tr.key : tr \in HeldTracks(Q) } = {1, 3}

C26_ResetRevivesExhaustedQueue ==
    isNextEmpty(Q) =>
        /\ \A n \in next_(Q) : n.ret = Null /\ n.q = Q
        /\ Cardinality(HeldTracks(Q)) >= 2 =>
             \A r \in reset(Q) :
                 /\ ~r.threw /\ Truthy(r.q.curr) /\ ~isNextEmpty(r.q)
                 /\ \A n \in next_(r.q) :
                      /\ ~n.threw /\ Truthy(n.ret)
                      /\ n.ret \in HeldTracks(Q) /\ n.ret # r.q.curr
                      /\ n.q.history = <<r.q.curr>>

\* C26 witness: three tracks were played to the end with a seek length other
\* than the default, and the next() after reset() returns a track.
C26_Witness ==
    /\ Len(history) = 2 /\ Truthy(curr) /\ isNextEmpty(Q)
    /\ seekSize # DefaultSeekLength
    /\ \E r \in reset(Q) : \E n \in next_(r.q) : Truthy(n.ret)

\* C27: after addNext(t), when there was a current track the next() that
\* follows returns t, whatever the shuffle flag and seekSize; when the queue
\* held no track, t is current.
C27_AddNextIsNextUp ==
    tracksKeyCounter < KeyBound =>
        \A track \in PrimitiveTracks : \A a \in addNext(Q, track) :
            LET t == MakeTrack(track, a.ret)
            IN /\ ~a.threw
               /\ Truthy(curr) => \A n \in next_(a.q) : n.ret = t
               /\ HeldTracks(Q) = {} => a.q.curr = t

\* the current track of q, with null and undefined both read as no track
CurrentTrack(q) == IF Truthy(q.curr) THEN q.curr ELSE Null

\* the keys of the lookahead of q, in order
SeekKeys(q) == [i \in 1..Len(q.nextSeek) |-> q.nextSeek[i].key]

\* C28: setting shuffle to the value it has changes nothing and makes no
\* callback.  Setting it to the other value leaves the current track (or its
\* absence), history and the set of held tracks as they were, and the lookahead is drawn anew from the
\* old lookahead and the pool together, as many tracks as seekSize allows:
\* with shuffle now on every arrangement of them is a possible lookahead, with
\* shuffle now off there is one outcome.
C28_ShuffleToggle ==
    /\ \A o \in setShuffle(Q, shuffleQueue) : ~o.threw /\ o.q = Q /\ o.cb = <<>>
    /\ LET outcomes == setShuffle(Q, ~shuffleQueue)
           available == PoolKeys(Q) \cup { nextSeek[i].key : i \in 1..Len(nextSeek) }
           needed == Min(seekSize, Cardinality(available))
       IN /\ \A o \in outcomes :
               /\ ~o.threw
               /\ o.q.shuffleQueue = ~shuffleQueue
               /\ CurrentTrack(o.q) = CurrentTrack(Q) /\ o.q.history = history
               /\ o.q.seekSize = seekSize /\ o.q.tracksKeyCounter = tracksKeyCounter
               /\ HeldTracks(o.q) = HeldTracks(Q)
               /\ SeekKeys(o.q) \in Arrangements(available, needed)
               /\ PoolKeys(o.q) = available \ { SeekKeys(o.q)[i] : i \in 1..needed }
          /\ ~shuffleQueue => { SeekKeys(o.q) : o \in outcomes } = Arrangements(available, needed)
          /\ shuffleQueue => Cardinality(outcomes) = 1

\* C28 witness: shuffle is off, the lookahead holds tracks 2 and 3 in that
\* order, and turning shuffle on can leave the lookahead as 3, 2.
C28_Witness ==
    /\ ~shuffleQueue /\ Truthy(curr) /\ SeekKeys(Q) = <<2, 3>>
    /\ \E o \in setShuffle(Q, TRUE) : SeekKeys(o.q) = <<3, 2>> /\ o.q.curr = curr

\* C29: the prev list of the seek view holds the min(seekSize, |history|) most
\* recent history tracks, oldest first (its last entry is the track played
\* just before current), and its next list is the lookahead in play order.
C29_SeekPrevOldestFirst ==
    LET n == Min(seekSize, Len(history))
    IN /\ seek(Q).next = nextSeek
       /\ Len(seek(Q).prev) = n
       /\ \A i \in 1..n : seek(Q).prev[i] = history[Len(history) - n + i]

\* a filter naming a field inside a data field: { data: { filteringData: { name: 'x' } } }
NestedSearch ==
    Obj(<<Prop("data", Obj(<<Prop("filteringData", Obj(<<Prop("name", Str("x"))>>))>>))>>)

\* C30: remove(filter) does not throw, for the filters of the calls above and
\* for a filter naming a nested field no track has: such a filter matches
\* nothing, so that nothing is returned as removed and every track stays held.
C30_RemoveNeverThrows ==
    /\ \A search \in Searches : \A o \in remove(Q, search) : ~o.threw
    /\ \A o \in remove(Q, NestedSearch) :
         /\ ~o.threw
         /\ o.ret = <<>>
         /\ HeldTracks(o.q) = HeldTracks(Q)

\* C31: a play or pause the engine rejects is caught at playerPlay /
\* playerPause: no rejected promise is ever left without a handler.
C31_EngineFailureCaught == ~engine.unhandled

\* the number of tracks q holds, container by container
HeldCount(q) ==
    Len(q.history) + (IF Truthy(q.curr) THEN 1 ELSE 0) + Len(q.nextSeek)
    + Cardinality(DOMAIN q.next)

\* C32: after reset() history is empty, the tracks held (key, src, data) are
\* the tracks that were held, each once, the lookahead holds min(seekSize,
\* tracks besides current) entries, and current holds a track if any is held.
C32_ResetKeepsTracks ==
    \A o \in reset(Q) :
        LET n == Cardinality(HeldTracks(Q))
        IN /\ ~o.threw
           /\ o.q.history = <<>>
           /\ HeldTracks(o.q) = HeldTracks(Q)
           /\ HeldCount(o.q) = n
           /\ n > 0 => Truthy(o.q.curr)
           /\ Len(o.q.nextSeek) = Min(seekSize, IF n > 0 THEN n - 1 ELSE 0)
           /\ o.q.seekSize = seekSize /\ o.q.tracksKeyCounter = tracksKeyCounter

\* C32 witness: history, current and the pool hold one track each with a seek
\* length of 1; after reset() current and the lookahead hold two of them and
\* the third is in the pool.
C32_Witness ==
    /\ Len(history) = 1 /\ Truthy(curr) /\ seekSize = 1 /\ HeldCount(Q) = 3
    /\ \E o \in reset(Q) : /\ Len(o.q.nextSeek) = 1 /\ Cardinality(DOMAIN o.q.next) = 1
                           /\ o.q.curr = history[1]

\* what C33 says of an outcome o of setting the seek length to n
SeekLengthFrame(o, n) ==
    LET keep == Min(Len(nextSeek), Len(o.q.nextSeek))
    IN /\ ~o.threw
       /\ o.q.seekSize = n
       /\ Truthy(curr) => (o.q.curr = curr /\ o.q.history = history)
       /\ Len(o.q.nextSeek) = Min(n, Len(nextSeek) + Cardinality(DOMAIN next))
       /\ SubSeq(o.q.nextSeek, 1, keep) = SubSeq(nextSeek, 1, keep)
       /\ \A i \in (n + 1)..Len(nextSeek) : nextSeek[i].key \in PoolKeys(o.q)
       /\ HeldTracks(o.q) = HeldTracks(Q)

\* C33: setting seekLength to n, and setDefaultSeekLength with n = 3, leaves
\* current and history unchanged when current holds a track; afterwards the
\* lookahead holds min(n, |lookahead| + |pool| before) tracks, the entries it
\* kept are a prefix in their old order, and the entries a shrink cut off are
\* in the pool.
C33_SeekLengthFrame ==
    /\ \A n \in 0..MaxSeek : \A o \in setSeekLength(Q, n) : SeekLengthFrame(o, n)
    /\ \A o \in setDefaultSeekLength(Q) : SeekLengthFrame(o, DefaultSeekLength)

\* C33 witness: the lookahead holds two tracks, and setting seekLength to 1
\* keeps the first and puts the second back into the pool.
C33_Witness ==
    /\ Truthy(curr) /\ Len(nextSeek) = 2
    /\ \E o \in setSeekLength(Q, 1) :
         /\ o.q.nextSeek = <<nextSeek[1]>>
         /\ PoolKeys(o.q) = {nextSeek[2].key}

\* a player whose element is stopped: paused and rewound to the start
Stopped(player) == player.paused /\ player.rewound

\* C34: after clear() on the queue of a player every slot of the ring has a
\* blank source and its engine is paused and rewound to the start
C34_ClearBlanksAndStopsRing ==
    (mutationCallback = "player" /\ ~threw) =>
        \A r \in clear(Q) : \A d \in Deliver(mutationCallback, r.cb, r.q, P) :
            /\ ~d.threw
            /\ \A i \in 1..Len(d.p.players) :
                 d.p.players[i].src = "" /\ Stopped(d.p.players[i])

\* the slot indexes of a ring: current, forward and backward
SlotIndexes(p) ==
    <<p.currentPlayer>> \o getNextPlayers(p) \o getPrevPlayers(p)

\* C35: the player's prefetch set to {enabled: true, size: n} leaves
\* queue.seekLength = n, a ring of 2n+1 slots, and the current index, the n
\* forward indexes and the n backward indexes pairwise distinct
C35_SetPrefetchKeepsRingInStep ==
    (mutationCallback = "player" /\ ~threw) =>
        \A n \in 1..MaxSeek : \A r \in setPrefetch(Q, P, TRUE, n) :
            /\ ~r.threw
            /\ r.q.seekSize = n
            /\ Len(r.p.players) = 2 * n + 1
            /\ Len(SlotIndexes(r.p)) = 2 * n + 1
            /\ \A i, j \in 1..Len(SlotIndexes(r.p)) :
                 i # j => SlotIndexes(r.p)[i] # SlotIndexes(r.p)[j]

\* the source the current slot is to hold for the value of queue.current
SrcOf(ret) == IF Truthy(ret) THEN URLtoString(ret.src) ELSE ""

\* C36: after every public queue operation the slot at the current index
\* holds the src of queue.current, or a blank source when there is none
C36_CurrentSlotHoldsCurrentTrack ==
    (mutationCallback = "player" /\ ~threw) =>
        /\ HasPlayer(P, currentPlayer)
        /\ \A c \in current(Q) : players[currentPlayer + 1].src = SrcOf(c.ret)

\* C37: the current index always names a slot the ring holds, and a resize of
\* the ring leaves it on the engine that was current before the resize
C37_PointerFollowsCurrentEngine ==
    /\ []((mutationCallback = "player" /\ ~threw) =>
            (0 <= currentPlayer /\ currentPlayer < Len(players)))
    /\ [][ (/\ mutationCallback = "player"
            /\ ~threw'
            /\ Len(players') # Len(players))
           => /\ currentPlayer' < Len(players')
              /\ players'[currentPlayer' + 1].origin = currentPlayer + 1 ]_vars

\* no completion of a fade is pending on any slot
FadesSettled == \A i \in 1..Len(players) : ~players[i].stopping

\* C38: once every pending fade completion has run, no slot other than the
\* slot at the current index is playing
C38_OnlyCurrentSlotPlays ==
    (mutationCallback = "player" /\ ~threw /\ FadesSettled) =>
        \A i \in 1..Len(players) : ~players[i].paused => i = currentPlayer + 1

\* the calls that move or rearrange tracks without taking any in or out
RearrangingCalls ==
    Effects(next_(Q)) \cup Effects(prev(Q)) \cup Effects(reset(Q))
    \cup Effects(current(Q))
    \cup UNION { Effects(setSeekLength(Q, len)) : len \in 0..MaxSeek }
    \cup Effects(setDefaultSeekLength(Q))
    \cup UNION { Effects(setShuffle(Q, shuffleEnable)) : shuffleEnable \in BOOLEAN }

\* C39: next, prev, reset, the seekLength setter, setDefaultSeekLength, the
\* shuffle setter and the current getter hold afterwards the tracks that were
\* held before, each as many times: none added, dropped or duplicated
C39_TrackConservation ==
    \A o \in RearrangingCalls :
        /\ ~o.threw
        /\ HeldTracks(o.q) = HeldTracks(Q)
        /\ HeldCount(o.q) = HeldCount(Q)

\* C39 witness: three tracks spread over history, current and the lookahead,
\* and a next() that moves current into history and draws the lookahead track
C39_Witness ==
    /\ Len(history) = 1 /\ Truthy(curr) /\ Len(nextSeek) = 1
    /\ \E o \in next_(Q) : Len(o.q.history) = 2 /\ o.q.curr = nextSeek[1]
    /\ \E o \in prev(Q) : o.q.curr = history[1] /\ o.q.history = <<>>

\* the lists pushMany is called with in this state
PushManyInputs ==
    { l \in TrackLists(MaxPushMany) : tracksKeyCounter + Len(l) <= KeyBound }

\* an outcome o of a push onto a queue with a current track: current,
\* history and the lookahead entries already present are as they were
KeepsCurrentSide(o) ==
    /\ o.q.curr = curr
    /\ o.q.history = history
    /\ Len(o.q.nextSeek) >= Len(nextSeek)
    /\ SubSeq(o.q.nextSeek, 1, Len(nextSeek)) = nextSeek

\* what C40 says of an outcome o of pushing the tracks `pushed` (one or more)
PushFrame(o, pushed) ==
    /\ ~o.threw
    /\ ~Truthy(curr) => o.q.curr = MakeTrack(pushed[1], tracksKeyCounter + 1)
    /\ Truthy(curr) => KeepsCurrentSide(o)

\* the same with shuffle taken into account: without a current track the
\* first pushed track becomes current when shuffle is off or one track is
\* pushed, and one of the pushed tracks when shuffle is on
PushFrameWithShuffle(o, pushed) ==
    /\ ~o.threw
    /\ (~Truthy(curr) /\ (~shuffleQueue \/ Len(pushed) = 1)) =>
         o.q.curr = MakeTrack(pushed[1], tracksKeyCounter + 1)
    /\ ~Truthy(curr) =>
         \E i \in 1..Len(pushed) : o.q.curr = MakeTrack(pushed[i], tracksKeyCounter + i)
    /\ Truthy(curr) => KeepsCurrentSide(o)

\* C40 (as claimed): push and pushMany on a queue without a current track make the first
\* pushed track current; on a queue with a current track they leave current,
\* history and the lookahead entries already present as they were
C40_PushFrame ==
    /\ tracksKeyCounter < KeyBound =>
         \A track \in PrimitiveTracks : \A o \in push(Q, track) :
             PushFrame(o, <<track>>)
    /\ \A tracks \in PushManyInputs \ {<<>>} : \A o \in pushMany(Q, tracks) :
         PushFrame(o, tracks)

\* C40 (amended): push, and pushMany with shuffle off, on a queue without a
\* current track make the first pushed track current; pushMany with shuffle
\* on makes one of the pushed tracks current; on a queue with a current track
\* push and pushMany leave current, history and the lookahead entries already
\* present as they were
C40_PushFrameWithShuffle ==
    /\ tracksKeyCounter < KeyBound =>
         \A track \in PrimitiveTracks : \A o \in push(Q, track) :
             PushFrameWithShuffle(o, <<track>>)
    /\ \A tracks \in PushManyInputs \ {<<>>} : \A o \in pushMany(Q, tracks) :
         PushFrameWithShuffle(o, tracks)

\* C40 witness: shuffle is on and a queue that has handed out a key holds no
\* current track; a pushMany of two tracks can make either of them current
C40_Witness ==
    /\ shuffleQueue /\ ~Truthy(curr) /\ tracksKeyCounter = 1
    /\ \E tracks \in PushManyInputs :
         /\ Len(tracks) = 2
         /\ \E o \in pushMany(Q, tracks) : o.q.curr.key = tracksKeyCounter + 1
         /\ \E o \in pushMany(Q, tracks) : o.q.curr.key = tracksKeyCounter + 2
====
